---- MODULE Spec2Model ----
(***************************************************************************)
(* Model of lib/maps.js of the `bing` node module: three route functions   *)
(* (getTransitRoute, getWalkingRoute, getDrivingRoute) that build a Bing   *)
(* Maps REST URL, issue one HTTP GET through `request`, and hand the       *)
(* outcome to the caller's callback.                                       *)
(*                                                                         *)
(* JavaScript strings are sequences of one-character strings.  Every       *)
(* JavaScript value is a record [t, s, n, e]: t is the type tag, s the     *)
(* characters of a string (or the code of an Error), n the number, e the   *)
(* entries of an object or array in enumeration order, each [k, v].        *)
(***************************************************************************)
EXTENDS Integers, Sequences, FiniteSets

\* ------------------------------------------------------------------ bounds
MaxCalls == 2      \* route-function calls made in one behaviour
MaxArgs == 2       \* keys of the objects given to objectToQueryString alone

\* ------------------------------------------------------- JavaScript values
JV(t, s, n, e) == [t |-> t, s |-> s, n |-> n, e |-> e]
Undefined == JV("undefined", <<>>, 0, <<>>)
Null == JV("null", <<>>, 0, <<>>)
Str(s) == JV("string", s, 0, <<>>)
Num(n) == JV("number", <<>>, n, <<>>)
Bool(b) == JV(IF b THEN "true" ELSE "false", <<>>, 0, <<>>)
Obj(e) == JV("object", <<>>, 0, e)
Arr(e) == JV("array", <<>>, 0, e)
Err(code) == JV("error", code, 0, <<>>)
Entry(k, v) == [k |-> k, v |-> v]

\* ToBoolean: what `if (x)` and `!x` test.
Truthy(v) ==
    CASE v.t = "undefined" -> FALSE
      [] v.t = "null" -> FALSE
      [] v.t = "false" -> FALSE
      [] v.t = "string" -> v.s # <<>>
      [] v.t = "number" -> v.n # 0
      [] OTHER -> TRUE

Digits == <<"0","1","2","3","4","5","6","7","8","9">>

RECURSIVE NumToStr(_)
\* Number.prototype.toString for a non-negative integer.
NumToStr(n) ==
    IF n < 10 THEN <<Digits[n + 1]>>
    ELSE NumToStr(n \div 10) \o <<Digits[(n % 10) + 1]>>

\* ToStringJS, as applied by `+` with a string operand and by encodeURIComponent.
ToStringJS(v) ==
    CASE v.t = "string" -> v.s
      [] v.t = "number" -> NumToStr(v.n)
      [] v.t = "undefined" -> <<"u","n","d","e","f","i","n","e","d">>
      [] v.t = "null" -> <<"n","u","l","l">>
      [] v.t = "true" -> <<"t","r","u","e">>
      [] v.t = "false" -> <<"f","a","l","s","e">>
      [] OTHER -> <<"[","o","b","j","e","c","t"," ","O","b","j","e","c","t","]">>

\* ------------------------------------------------------ encodeURIComponent
Unreserved ==
    {"A","B","C","D","E","F","G","H","I","J","K","L","M","N","O","P","Q","R","S",
     "T","U","V","W","X","Y","Z","a","b","c","d","e","f","g","h","i","j","k","l",
     "m","n","o","p","q","r","s","t","u","v","w","x","y","z","0","1","2","3","4",
     "5","6","7","8","9","-","_",".","!","~","*","'","(",")"}

\* ASCII code of the reserved characters the model's strings use.
CharCode(c) ==
    CASE c = " " -> 32  [] c = "\"" -> 34 [] c = "#" -> 35  [] c = "%" -> 37
      [] c = "&" -> 38  [] c = "+" -> 43  [] c = "," -> 44  [] c = "/" -> 47
      [] c = ":" -> 58  [] c = "=" -> 61  [] c = "?" -> 63  [] c = "[" -> 91
      [] c = "]" -> 93  [] c = "{" -> 123 [] c = "}" -> 125

HexDigits == <<"0","1","2","3","4","5","6","7","8","9","A","B","C","D","E","F">>

EncodeChar(c) ==
    IF c \in Unreserved THEN <<c>>
    ELSE <<"%", HexDigits[(CharCode(c) \div 16) + 1], HexDigits[(CharCode(c) % 16) + 1]>>

RECURSIVE EncodeChars(_)
EncodeChars(s) ==
    IF s = <<>> THEN <<>> ELSE EncodeChar(Head(s)) \o EncodeChars(Tail(s))

encodeURIComponent(v) == EncodeChars(ToStringJS(v))

\* ------------------------------------------------------- module constants
SERVICE_URL ==
    <<"h","t","t","p",":","/","/","d","e","v",".","v","i","r","t","u","a","l","e",
      "a","r","t","h",".","n","e","t","/","R","E","S","T","/","v","1">>
TRANSIT_RESOURCE == <<"R","o","u","t","e","s","/","T","r","a","n","s","i","t">>
WALKING_RESOURCE == <<"R","o","u","t","e","s","/","W","a","l","k","i","n","g">>
DRIVING_RESOURCE == <<"R","o","u","t","e","s","/","D","r","i","v","i","n","g">>

\* ----------------------------------------------------- objectToQueryString
RECURSIVE Join(_, _)
\* Array.prototype.join: the elements with sep between consecutive ones.
Join(parts, sep) ==
    IF parts = <<>> THEN <<>>
    ELSE IF Len(parts) = 1 THEN parts[1]
    ELSE parts[1] \o sep \o Join(Tail(parts), sep)

\* The `args` array after the for-in loop: one key=value string per entry.
QueryPairs(obj) ==
    [i \in 1..Len(obj.e) |-> obj.e[i].k \o <<"=">> \o encodeURIComponent(obj.e[i].v)]

objectToQueryString_TrailingAmp(obj) ==
    IF Truthy(obj)
    THEN <<"?">> \o Join([i \in 1..Len(obj.e) |-> QueryPairs(obj)[i] \o <<"&">>], <<>>)
    ELSE <<>>

objectToQueryString(obj) ==
    IF Truthy(obj) THEN <<"?">> \o Join(QueryPairs(obj), <<"&">>) ELSE <<>>

createTransitUrl(queryArgs) ==
    SERVICE_URL \o <<"/">> \o TRANSIT_RESOURCE \o objectToQueryString(queryArgs)

createWalkingUrl_TransitResource(queryArgs) ==
    SERVICE_URL \o <<"/">> \o TRANSIT_RESOURCE \o objectToQueryString(queryArgs)

createWalkingUrl(queryArgs) ==
    SERVICE_URL \o <<"/">> \o WALKING_RESOURCE \o objectToQueryString(queryArgs)

createDrivingUrl(queryArgs) ==
    SERVICE_URL \o <<"/">> \o DRIVING_RESOURCE \o objectToQueryString(queryArgs)

\* ---------------------------------------------------------------- options
\* The Date of instant t, as its UTC fields.
DateAt(t) ==
    [year |-> 2011 + (t \div 2), month |-> (11 + t) % 12, date |-> 1 + ((30 + t) % 31),
     hours |-> (23 + t) % 24, minutes |-> (59 + t) % 60, seconds |-> (58 + 3 * t) % 60]

\* An options hash; a field the hash does not have reads as undefined.
Options(optimize, distanceUnit, outputType, travelTime, timeType, maxSolutionCount) ==
    [optimize |-> optimize, distanceUnit |-> distanceUnit, outputType |-> outputType,
     travelTime |-> travelTime, timeType |-> timeType,
     maxSolutionCount |-> maxSolutionCount]

\* getDefaultOptions assigns the undeclared (hence global) variable curTime
\* and returns the hash: the result here is both, [curTime, options].
getDefaultOptions(date) ==
    [curTime |-> date,
     options |-> Options(Str(<<"t","i","m","e">>), Str(<<"m","i">>),
                         Str(<<"j","s","o","n">>), Undefined, Undefined, Undefined)]

\* The travelTime string built from the global curTime.
FormatTravelTime(d) ==
    NumToStr(d.month + 1) \o <<"/">> \o NumToStr(d.date) \o <<"/">> \o NumToStr(d.year)
        \o <<" ">> \o NumToStr(d.hours) \o <<":">> \o NumToStr(d.minutes)
        \o <<":">> \o NumToStr(d.seconds)

getDefaultTransitOptions_NoMaxSolutions(date) ==
    LET r == getDefaultOptions(date) IN
    [curTime |-> r.curTime,
     options |-> [r.options EXCEPT
                     !.travelTime = Str(FormatTravelTime(r.curTime)),
                     !.timeType = Str(<<"D","e","p","a","r","t","u","r","e">>)]]

getDefaultTransitOptions(date) ==
    LET r == getDefaultOptions(date) IN
    [curTime |-> r.curTime,
     options |-> [r.options EXCEPT
                     !.travelTime = Str(FormatTravelTime(r.curTime)),
                     !.timeType = Str(<<"D","e","p","a","r","t","u","r","e">>),
                     !.maxSolutionCount = Num(3)]]

getDefaultWalkingOptions_KeepTime(date) == getDefaultOptions(date)

getDefaultWalkingOptions(date) ==
    LET r == getDefaultOptions(date) IN
    [curTime |-> r.curTime,
     options |-> [r.options EXCEPT !.optimize = Str(<<"d","i","s","t","a","n","c","e">>)]]

getDefaultDrivingOptions(date) ==
    LET r == getDefaultOptions(date) IN
    [curTime |-> r.curTime,
     options |-> [r.options EXCEPT !.optimize = Str(<<"t","i","m","e">>)]]

\* The args object, keys in insertion order (the order for-in enumerates).
convertLocationsAndOptionsToQueryStringArgs(startLocation, endLocation, options, apiKey) ==
    Obj(<<Entry(<<"w","p",".","0">>, startLocation),
          Entry(<<"w","p",".","1">>, endLocation),
          Entry(<<"k","e","y">>, apiKey),
          Entry(<<"o">>, options.outputType),
          Entry(<<"o","p","t","m","z">>, options.optimize),
          Entry(<<"d","u">>, options.distanceUnit)>>
        \o (IF Truthy(options.travelTime)
            THEN <<Entry(<<"d","t">>, options.travelTime)>> ELSE <<>>)
        \o (IF Truthy(options.timeType)
            THEN <<Entry(<<"t","t">>, options.timeType)>> ELSE <<>>)
        \o (IF Truthy(options.maxSolutionCount)
            THEN <<Entry(<<"m","a","x","S","o","l","u","t","i","o","n","s">>,
                         options.maxSolutionCount)>>
            ELSE <<>>))

\* --------------------------------------------------------------- JSON.parse
\* A parse step's result: ok, the value read, and the index after it.
Parsed(val, next) == [ok |-> TRUE, val |-> val, next |-> next]
SyntaxError == [ok |-> FALSE, val |-> Undefined, next |-> 0]

IsDigit(c) == c \in {"0","1","2","3","4","5","6","7","8","9"}
DigitVal(c) == CHOOSE d \in 0..9 : Digits[d + 1] = c

RECURSIVE SkipWs(_, _)
SkipWs(s, i) == IF i <= Len(s) /\ s[i] = " " THEN SkipWs(s, i + 1) ELSE i

\* Does the literal lit start at index i of s?
StartsAt(s, i, lit) ==
    /\ i + Len(lit) - 1 <= Len(s)
    /\ \A k \in 1..Len(lit) : s[i + k - 1] = lit[k]

RECURSIVE ScanString(_, _, _)
\* The characters up to the closing quote; escapes and control characters
\* are outside the bodies modelled, so a backslash is a syntax error here.
ScanString(s, i, acc) ==
    IF i > Len(s) \/ s[i] = "\\" THEN SyntaxError
    ELSE IF s[i] = "\"" THEN Parsed(Str(acc), i + 1)
    ELSE ScanString(s, i + 1, Append(acc, s[i]))

RECURSIVE ScanDigits(_, _, _)
ScanDigits(s, i, acc) ==
    IF i <= Len(s) /\ IsDigit(s[i])
    THEN ScanDigits(s, i + 1, 10 * acc + DigitVal(s[i]))
    ELSE Parsed(Num(acc), i)

RECURSIVE ParseValue(_, _), ParseElements(_, _, _), ParseMembers(_, _, _)
ParseValue(s, i0) ==
    LET i == SkipWs(s, i0) IN
    IF i > Len(s) THEN SyntaxError
    ELSE IF s[i] = "{" THEN
        LET j == SkipWs(s, i + 1) IN
        IF j <= Len(s) /\ s[j] = "}" THEN Parsed(Obj(<<>>), j + 1)
        ELSE ParseMembers(s, j, <<>>)
    ELSE IF s[i] = "[" THEN
        LET j == SkipWs(s, i + 1) IN
        IF j <= Len(s) /\ s[j] = "]" THEN Parsed(Arr(<<>>), j + 1)
        ELSE ParseElements(s, j, <<>>)
    ELSE IF s[i] = "\"" THEN ScanString(s, i + 1, <<>>)
    ELSE IF s[i] = "0" THEN Parsed(Num(0), i + 1)
    ELSE IF IsDigit(s[i]) THEN ScanDigits(s, i, 0)
    ELSE IF StartsAt(s, i, <<"t","r","u","e">>) THEN Parsed(Bool(TRUE), i + 4)
    ELSE IF StartsAt(s, i, <<"f","a","l","s","e">>) THEN Parsed(Bool(FALSE), i + 5)
    ELSE IF StartsAt(s, i, <<"n","u","l","l">>) THEN Parsed(Null, i + 4)
    ELSE SyntaxError

\* value ("," value)* "]"
ParseElements(s, i, acc) ==
    LET r == ParseValue(s, i) IN
    IF ~r.ok THEN SyntaxError
    ELSE LET j == SkipWs(s, r.next)
             acc2 == Append(acc, Entry(NumToStr(Len(acc)), r.val)) IN
         IF j > Len(s) THEN SyntaxError
         ELSE IF s[j] = "]" THEN Parsed(Arr(acc2), j + 1)
         ELSE IF s[j] = "," THEN ParseElements(s, j + 1, acc2)
         ELSE SyntaxError

\* Object.defineProperty semantics of a repeated key: the later value wins,
\* the key keeps its first position.
PutMember(acc, k, v) ==
    IF \E n \in 1..Len(acc) : acc[n].k = k
    THEN [n \in 1..Len(acc) |-> IF acc[n].k = k THEN Entry(k, v) ELSE acc[n]]
    ELSE Append(acc, Entry(k, v))

\* string ":" value ("," string ":" value)* "}"
ParseMembers(s, i0, acc) ==
    LET i == SkipWs(s, i0) IN
    IF i > Len(s) \/ s[i] # "\"" THEN SyntaxError
    ELSE LET k == ScanString(s, i + 1, <<>>) IN
    IF ~k.ok THEN SyntaxError
    ELSE LET c == SkipWs(s, k.next) IN
    IF c > Len(s) \/ s[c] # ":" THEN SyntaxError
    ELSE LET r == ParseValue(s, c + 1) IN
    IF ~r.ok THEN SyntaxError
    ELSE LET j == SkipWs(s, r.next)
             acc2 == PutMember(acc, k.val.s, r.val) IN
         IF j > Len(s) THEN SyntaxError
         ELSE IF s[j] = "}" THEN Parsed(Obj(acc2), j + 1)
         ELSE IF s[j] = "," THEN ParseMembers(s, j + 1, acc2)
         ELSE SyntaxError

\* JSON.parse(text): the argument is converted to a string first; the whole
\* text must be one value.  ok = FALSE stands for the SyntaxError thrown.
JSONparse(text) ==
    LET s == ToStringJS(text)
        r == ParseValue(s, 1) IN
    IF r.ok /\ SkipWs(s, r.next) = Len(s) + 1 THEN r ELSE SyntaxError

\* ------------------------------------------------------------------- state
VARIABLES
    BING_MAPS_API_KEY,  \* process.env.BING_MAPS_API_KEY, read at module load
    curTime,            \* the global that getDefaultOptions assigns
    ncalls,             \* route-function calls made so far
    pending,            \* the calls whose request is in flight, in call order
    last,               \* the call whose handler ran most recently, or NoCall
    qObj, qOut, qPc     \* objectToQueryString applied on its own: input, output

vars == <<BING_MAPS_API_KEY, curTime, ncalls, pending, last, qObj, qOut, qPc>>

\* The global curTime before the first assignment.
NoDate == [year |-> 0, month |-> 0, date |-> 0, hours |-> 0, minutes |-> 0, seconds |-> 0]

\* --------------------------------------------------------- input universes
\* The credential in the environment when the module is loaded.
ApiKeys == {Undefined, Str(<<"K","1">>)}
\* The instants `new Date()` returns.
Times == {0, 1}

Addr1 == Str(<<"1"," ","N"," ","S","t",","," ","P","A">>)
Addr2 == Str(<<"a","&","d","t","=","1">>)
LocationPairs == {<<Addr1, Addr2>>, <<Addr2, Addr2>>}

BodyResourceSets ==
    Str(<<"{","\"","r","e","s","o","u","r","c","e","S","e","t","s","\"",":","[","]","}">>)
BodyNotFound == Str(<<"N","o","t"," ","F","o","u","n","d">>)
Bodies == {BodyResourceSets, BodyNotFound}

StatusCodes == {200, 404}
STATUS_CODE == <<"s","t","a","t","u","s","C","o","d","e">>
Response(status) == Obj(<<Entry(STATUS_CODE, Num(status))>>)
ECONNREFUSED == Err(<<"E","C","O","N","N","R","E","F","U","S","E","D">>)

\* What `request` hands its handler: (null, response, body) when a response
\* arrived, (error) alone when the transport failed.
Outcomes ==
    {[err |-> Null, response |-> Response(st), body |-> b] : st \in StatusCodes, b \in Bodies}
    \cup {[err |-> ECONNREFUSED, response |-> Undefined, body |-> Undefined]}
NoOutcome == [err |-> Undefined, response |-> Undefined, body |-> Undefined]

\* ------------------------------------------------------------- callBingApi
\* o.k for an object o; reading a property of undefined or null throws.
HasProps(o) == o.t \notin {"undefined", "null"}
GetProp(o, k) ==
    IF \E i \in 1..Len(o.e) : o.e[i].k = k
    THEN o.e[CHOOSE i \in 1..Len(o.e) : o.e[i].k = k].v
    ELSE Undefined

\* The handler's effect: the callback invocations it made, each [err, result],
\* and the exception that escaped it ("none" when it returned).
Returned(invoked) == [invoked |-> invoked, thrown |-> "none"]
Threw(e) == [invoked |-> <<>>, thrown |-> e]
Invocation(err, result) == [err |-> err, result |-> result]

ErrorEnvelope(statusCode, body) ==
    Obj(<<Entry(<<"e","r","r","o","r">>,
                Obj(<<Entry(STATUS_CODE, statusCode), Entry(<<"b","o","d","y">>, body)>>))>>)

\* The status 200 branch with the parse failure caught and wrapped.
SuccessBranch_CatchParseError(body, callback) ==
    IF callback
    THEN LET p == JSONparse(body) IN
         IF p.ok THEN Returned(<<Invocation(Undefined, p.val)>>)
         ELSE Returned(<<Invocation(Undefined, ErrorEnvelope(Num(200), body))>>)
    ELSE Returned(<<>>)

\* callback(undefined, JSON.parse(body))
SuccessBranch(body, callback) ==
    IF callback
    THEN LET p == JSONparse(body) IN
         IF p.ok THEN Returned(<<Invocation(Undefined, p.val)>>) ELSE Threw("SyntaxError")
    ELSE Returned(<<>>)

\* callback(err, {"error": {"statusCode": response.statusCode, "body": JSON.parse(body)}})
\* the arguments are evaluated left to right before the call.
ErrorBranch(err, response, body, callback) ==
    IF callback
    THEN IF ~HasProps(response) THEN Threw("TypeError")
         ELSE LET p == JSONparse(body) IN
              IF p.ok
              THEN Returned(<<Invocation(err, ErrorEnvelope(GetProp(response, STATUS_CODE), p.val))>>)
              ELSE Threw("SyntaxError")
    ELSE Returned(<<>>)

RequestHandler_RawBody(err, response, body, callback) ==
    IF ~Truthy(err) /\ ~HasProps(response) THEN Threw("TypeError")
    ELSE IF ~Truthy(err) /\ GetProp(response, STATUS_CODE) = Num(200)
    THEN IF callback THEN Returned(<<Invocation(Undefined, body)>>) ELSE Returned(<<>>)
    ELSE ErrorBranch(err, response, body, callback)

\* function (err, response, body) { ... } given to request by callBingApi.
RequestHandler(err, response, body, callback) ==
    IF ~Truthy(err) /\ ~HasProps(response) THEN Threw("TypeError")
    ELSE IF ~Truthy(err) /\ GetProp(response, STATUS_CODE) = Num(200)
    THEN SuccessBranch(body, callback)
    ELSE ErrorBranch(err, response, body, callback)

\* callBingApi(url, callback): one request(url, handler).  The result is the
\* list of GETs the call has handed to `request`.
callBingApi(url) == <<[method |-> "GET", url |-> url]>>

\* A call that has returned to its caller, its request in flight: its
\* arguments, the options it resolved and the GETs it handed to `request`.
Call(fn, startLocation, endLocation, callback, options, sent) ==
    [fn |-> fn, startLocation |-> startLocation, endLocation |-> endLocation,
     callback |-> callback, options |-> options, sent |-> sent]

\* A call whose handler has run: which function, whether it had a callback,
\* how many GETs were sent for it in all, what `request` handed the handler,
\* and the handler's effect.
Completed(c, o, h) ==
    [pc |-> "done", fn |-> c.fn, callback |-> c.callback, gets |-> Len(c.sent),
     outcome |-> o, invoked |-> h.invoked, thrown |-> h.thrown]
NoCall ==
    [pc |-> "none", fn |-> "none", callback |-> FALSE, gets |-> 0,
     outcome |-> NoOutcome, invoked |-> <<>>, thrown |-> "none"]

\* ----------------------------------------------------------------- actions
Init ==
    /\ BING_MAPS_API_KEY \in ApiKeys
    /\ curTime = NoDate
    /\ ncalls = 0
    /\ pending = <<>>
    /\ last = NoCall
    /\ qObj = Undefined /\ qOut = <<>> /\ qPc = "off"

\* t is the instant `new Date()` returns during the call.
getTransitRoute(startLocation, endLocation, callback, t) ==
    /\ ncalls < MaxCalls
    /\ LET r == getDefaultTransitOptions(DateAt(t))
           options == r.options
           queryStringArgs == convertLocationsAndOptionsToQueryStringArgs(
                                  startLocation, endLocation, options, BING_MAPS_API_KEY)
           requestUrl == createTransitUrl(queryStringArgs)
       IN /\ curTime' = r.curTime
          /\ pending' = Append(pending, Call("getTransitRoute", startLocation, endLocation,
                                             callback, options, callBingApi(requestUrl)))
    /\ ncalls' = ncalls + 1
    /\ UNCHANGED <<BING_MAPS_API_KEY, last, qObj, qOut, qPc>>

\* t is the instant `new Date()` returns during the call.
getWalkingRoute(startLocation, endLocation, callback, t) ==
    /\ ncalls < MaxCalls
    /\ LET r == getDefaultWalkingOptions(DateAt(t))
           options == r.options
           queryStringArgs == convertLocationsAndOptionsToQueryStringArgs(
                                  startLocation, endLocation, options, BING_MAPS_API_KEY)
           requestUrl == createWalkingUrl(queryStringArgs)
       IN /\ curTime' = r.curTime
          /\ pending' = Append(pending, Call("getWalkingRoute", startLocation, endLocation,
                                             callback, options, callBingApi(requestUrl)))
    /\ ncalls' = ncalls + 1
    /\ UNCHANGED <<BING_MAPS_API_KEY, last, qObj, qOut, qPc>>

\* t is the instant `new Date()` returns during the call.
getDrivingRoute(startLocation, endLocation, callback, t) ==
    /\ ncalls < MaxCalls
    /\ LET r == getDefaultDrivingOptions(DateAt(t))
           options == r.options
           queryStringArgs == convertLocationsAndOptionsToQueryStringArgs(
                                  startLocation, endLocation, options, BING_MAPS_API_KEY)
           requestUrl == createDrivingUrl(queryStringArgs)
       IN /\ curTime' = r.curTime
          /\ pending' = Append(pending, Call("getDrivingRoute", startLocation, endLocation,
                                             callback, options, callBingApi(requestUrl)))
    /\ ncalls' = ncalls + 1
    /\ UNCHANGED <<BING_MAPS_API_KEY, last, qObj, qOut, qPc>>

RemoveAt(q, i) == [k \in 1..(Len(q) - 1) |-> IF k < i THEN q[k] ELSE q[k + 1]]

\* `request` completes the i-th pending call with outcome o and runs the
\* handler to its end; nothing refers to the call afterwards.
Respond(i, o) ==
    /\ i \in 1..Len(pending)
    /\ LET c == pending[i] IN
       last' = Completed(c, o, RequestHandler(o.err, o.response, o.body, c.callback))
    /\ pending' = RemoveAt(pending, i)
    /\ UNCHANGED <<BING_MAPS_API_KEY, curTime, ncalls, qObj, qOut, qPc>>

Next ==
    \/ \E p \in LocationPairs, cb \in BOOLEAN, t \in Times : getTransitRoute(p[1], p[2], cb, t)
    \/ \E p \in LocationPairs, cb \in BOOLEAN, t \in Times : getWalkingRoute(p[1], p[2], cb, t)
    \/ \E p \in LocationPairs, cb \in BOOLEAN, t \in Times : getDrivingRoute(p[1], p[2], cb, t)
    \/ \E i \in 1..MaxCalls, o \in Outcomes : Respond(i, o)

Spec == Init /\ [][Next]_vars

\* ------------------------------------- objectToQueryString applied on its own
QKeys == {<<"a">>, <<"b","c">>, <<"w","p",".","0">>}
QValues == {Str(<<"x"," ","y">>), Str(<<"a","&","b","=","c">>), Num(30), Undefined}
\* Objects of at most MaxArgs own properties, none with an integer-like key
\* (for-in enumerates those by value rather than in insertion order).
QObjects ==
    {Obj(e) : e \in {f \in UNION {[1..n -> [k : QKeys, v : QValues]] : n \in 0..MaxArgs} :
                        \A i, j \in 1..Len(f) : f[i].k = f[j].k => i = j}}
QInputs == {Undefined, Null} \cup QObjects

InitQ ==
    /\ BING_MAPS_API_KEY \in ApiKeys
    /\ curTime = NoDate
    /\ ncalls = 0
    /\ pending = <<>>
    /\ last = NoCall
    /\ qObj \in QInputs /\ qOut = <<>> /\ qPc = "ready"

ApplyQ ==
    /\ qPc = "ready"
    /\ qOut' = objectToQueryString(qObj)
    /\ qPc' = "done"
    /\ UNCHANGED <<BING_MAPS_API_KEY, curTime, ncalls, pending, last, qObj>>

NextQ == ApplyQ

SpecQ == InitQ /\ [][NextQ]_vars

\* ----------------------------------------------- reading a URL back (checks)
Reserved == {" ","\"","#","%","&","+",",","/",":","=","?","[","]","{","}"}
HexVal(c) == CHOOSE d \in 0..15 : HexDigits[d + 1] = c
CharOf(code) == CHOOSE c \in Reserved : CharCode(c) = code

RECURSIVE DecodeChars(_)
\* decodeURIComponent on characters.
DecodeChars(s) ==
    IF s = <<>> THEN <<>>
    ELSE IF s[1] = "%"
    THEN <<CharOf(16 * HexVal(s[2]) + HexVal(s[3]))>> \o DecodeChars(SubSeq(s, 4, Len(s)))
    ELSE <<s[1]>> \o DecodeChars(Tail(s))

\* The indexes of s that hold the character c.
Positions(s, c) == {i \in 1..Len(s) : s[i] = c}

\* String.prototype.indexOf, 1-based; 0 when c does not occur.
Find(s, c) ==
    LET P == Positions(s, c) IN
    IF P = {} THEN 0 ELSE CHOOSE i \in P : \A j \in P : i <= j

\* String.prototype.split on one character.
SplitOn(s, c) ==
    LET P == Positions(s, c)
        n == Cardinality(P)
        pos == [k \in 1..n |-> CHOOSE i \in P : Cardinality({j \in P : j < i}) = k - 1]
    IN [k \in 1..(n + 1) |->
            SubSeq(s, IF k = 1 THEN 1 ELSE pos[k - 1] + 1,
                      IF k = n + 1 THEN Len(s) ELSE pos[k] - 1)]

\* The part of a URL before its first "?", and the part after it.
PathOf(url) ==
    LET q == Find(url, "?") IN IF q = 0 THEN url ELSE SubSeq(url, 1, q - 1)
QueryOf(url) ==
    LET q == Find(url, "?") IN IF q = 0 THEN <<>> ELSE SubSeq(url, q + 1, Len(url))

\* One name=value piece as a server reads it: the name and the decoded value.
ParamOf(part) ==
    LET eq == Find(part, "=") IN
    IF eq = 0 THEN [k |-> part, v |-> <<>>]
    ELSE [k |-> SubSeq(part, 1, eq - 1), v |-> DecodeChars(SubSeq(part, eq + 1, Len(part)))]

\* The parameters of a URL's query, in order.
ParamsOf(url) ==
    LET q == QueryOf(url) IN
    IF q = <<>> THEN <<>>
    ELSE LET parts == SplitOn(q, "&") IN [i \in 1..Len(parts) |-> ParamOf(parts[i])]
NamesIn(params) == {params[i].k : i \in 1..Len(params)}
\* The values given for name k.
ValuesIn(params, k) == {params[i].v : i \in {j \in 1..Len(params) : params[j].k = k}}

\* A handler has run; the calls in flight.
Done == last.pc = "done"
Calls == {pending[i] : i \in 1..Len(pending)}
UrlOf(c) == c.sent[1].url
Unset(v) == v \in {Undefined, Null}
StatusOf(c) == GetProp(c.outcome.response, STATUS_CODE)
GotResponse(c) == ~Truthy(c.outcome.err) /\ HasProps(c.outcome.response)
IsEnvelope(v) ==
    /\ v.t = "object" /\ Len(v.e) = 1 /\ v.e[1].k = <<"e","r","r","o","r">>
    /\ v.e[1].v.t = "object" /\ Len(v.e[1].v.e) = 2
    /\ v.e[1].v.e[1].k = STATUS_CODE /\ v.e[1].v.e[2].k = <<"b","o","d","y">>
EnvelopeStatus(v) == v.e[1].v.e[1].v
EnvelopeBody(v) == v.e[1].v.e[2].v

\* ------------------------------------------------------------------ claims

\* C1: whatever the outcome of the HTTP request (200, non-200, transport
\* failure; body JSON or not), once the handler of a call made with a callback
\* has run, the callback has been invoked exactly once.
C1_CallbackExactlyOnce ==
    (Done /\ last.callback) => Len(last.invoked) = 1

\* C2: when the transport reports no error and the status is 200 with a JSON
\* body, the callback receives (undefined, the body parsed as JSON) and no
\* error envelope; for the body {"resourceSets":[]} that is {resourceSets: []}.
C2_SuccessDeliversParsedBody ==
    (Done /\ last.callback /\ GotResponse(last) /\ StatusOf(last) = Num(200)
          /\ JSONparse(last.outcome.body).ok)
    => /\ last.thrown = "none"
       /\ Len(last.invoked) = 1
       /\ last.invoked[1].err = Undefined
       /\ last.invoked[1].result = JSONparse(last.outcome.body).val
       /\ last.invoked[1].result # last.outcome.body
       /\ ~IsEnvelope(last.invoked[1].result)
       /\ (last.outcome.body = BodyResourceSets
            => last.invoked[1].result =
                 Obj(<<Entry(<<"r","e","s","o","u","r","c","e","S","e","t","s">>, Arr(<<>>))>>))

C2_Witness ==
    /\ Done /\ last.callback /\ GotResponse(last) /\ StatusOf(last) = Num(200)
    /\ last.outcome.body = BodyResourceSets
    /\ Len(last.invoked) = 1

\* C3: when the transport reports no error and the status is not 200, for any
\* body (JSON or not, e.g. 404 "Not Found"), the callback receives an unset
\* first argument and an error envelope whose statusCode is the response status.
C3_Non200DeliversEnvelope ==
    (Done /\ last.callback /\ GotResponse(last) /\ StatusOf(last) # Num(200))
    => /\ Len(last.invoked) = 1
       /\ Unset(last.invoked[1].err)
       /\ IsEnvelope(last.invoked[1].result)
       /\ EnvelopeStatus(last.invoked[1].result) = StatusOf(last)

\* C4: when the transport fails (an error and no response object), the
\* callback receives the transport error first and an error envelope whose
\* statusCode is undefined.
C4_TransportFailureDeliversError ==
    (Done /\ last.callback /\ Truthy(last.outcome.err) /\ last.outcome.response = Undefined)
    => /\ Len(last.invoked) = 1
       /\ last.invoked[1].err = last.outcome.err
       /\ IsEnvelope(last.invoked[1].result)
       /\ EnvelopeStatus(last.invoked[1].result) = Undefined

\* C5: the body field of an error envelope passed to the callback is the raw
\* text of the response, not a parsed or transformed value.
C5_EnvelopeBodyIsRawText ==
    (Done /\ Len(last.invoked) = 1 /\ IsEnvelope(last.invoked[1].result)
          /\ ~(GotResponse(last) /\ StatusOf(last) = Num(200)))
    => EnvelopeBody(last.invoked[1].result) = last.outcome.body

TransitOnly == {<<"d","t">>, <<"t","t">>, <<"m","a","x","S","o","l","u","t","i","o","n","s">>}

\* C7: the query of every getTransitRoute request has the parameters dt, tt
\* and maxSolutions; the query of every getWalkingRoute and getDrivingRoute
\* request has none of them, also when the call follows a transit call.
C7_TransitOnlyParams ==
    \A c \in Calls :
        LET names == NamesIn(ParamsOf(UrlOf(c))) IN
        IF c.fn = "getTransitRoute"
        THEN TransitOnly \subseteq names
        ELSE TransitOnly \cap names = {}

C7_Witness ==
    /\ Len(pending) = 2
    /\ pending[1].fn = "getTransitRoute"
    /\ TransitOnly \subseteq NamesIn(ParamsOf(UrlOf(pending[1])))
    /\ pending[2].fn = "getDrivingRoute"
    /\ TransitOnly \cap NamesIn(ParamsOf(UrlOf(pending[2]))) = {}

ResourceOf(fn) ==
    CASE fn = "getTransitRoute" -> <<"R","o","u","t","e","s","/","T","r","a","n","s","i","t">>
      [] fn = "getWalkingRoute" -> <<"R","o","u","t","e","s","/","W","a","l","k","i","n","g">>
      [] fn = "getDrivingRoute" -> <<"R","o","u","t","e","s","/","D","r","i","v","i","n","g">>

WellFormedQuery(obj, out) ==
    /\ out # <<>> /\ out[1] = "?"
    /\ LET parts == IF Len(out) = 1 THEN <<>> ELSE SplitOn(Tail(out), "&") IN
       /\ Len(parts) = Len(obj.e)
       /\ \A i \in 1..Len(parts) :
            LET key == obj.e[i].k
                val == SubSeq(parts[i], Len(key) + 2, Len(parts[i])) IN
            /\ Len(parts[i]) > Len(key)
            /\ SubSeq(parts[i], 1, Len(key) + 1) = key \o <<"=">>
            /\ \A n \in 1..Len(val) : val[n] \in Unreserved \cup {"%"}
            /\ DecodeChars(val) = ToStringJS(obj.e[i].v)

\* C9 as stated: for any mapping the result is "?" and the encoded pairs
\* joined with "&"; for a mapping with no arguments it is the empty string.
C9_QueryStringAsClaimed ==
    qPc = "done" =>
        IF ~Truthy(qObj) \/ qObj.e = <<>> THEN qOut = <<>> ELSE WellFormedQuery(qObj, qOut)

\* C9, amended: for any mapping, the empty one included, the result is "?"
\* and the encoded pairs joined with "&" (so "?" alone for the empty mapping);
\* it is the empty string only when no mapping is given (undefined or null).
C9_QueryString ==
    qPc = "done" =>
        IF ~Truthy(qObj) THEN qOut = <<>>
        ELSE /\ WellFormedQuery(qObj, qOut)
             /\ qObj.e = <<>> => qOut = <<"?">>

C9_Witness ==
    /\ qPc = "done" /\ qObj = Obj(<<>>) /\ qOut = <<"?">>

\* C10: no call writes state that outlives the call: the module-level state
\* (the credential and whatever else is global) is never changed by a step.
C10_NoModuleStateWritten ==
    [][BING_MAPS_API_KEY' = BING_MAPS_API_KEY /\ curTime' = curTime]_vars

\* C11: when the status is 200 with no transport error, the body is not valid
\* JSON and a callback was supplied, the parse failure is not caught and not
\* turned into an error envelope: it escapes the response handler as a
\* SyntaxError and the callback is not invoked at all.
C11_ParseFailureEscapes ==
    (Done /\ last.callback /\ GotResponse(last) /\ StatusOf(last) = Num(200)
          /\ last.outcome.body = BodyNotFound)
    => /\ ~JSONparse(last.outcome.body).ok
       /\ last.thrown = "SyntaxError"
       /\ last.invoked = <<>>

C11_Witness ==
    /\ Done /\ last.callback /\ GotResponse(last) /\ StatusOf(last) = Num(200)
    /\ last.outcome.body = BodyNotFound
    /\ last.thrown = "SyntaxError" /\ last.invoked = <<>>

====
